---- MODULE Spec2Model ----
(***************************************************************************)
(* Authentication / session core of Campfire: OTP lifecycle, refresh-token *)
(* sessions, rotation and logout.  Tables are sets of rows, time is an     *)
(* integer clock, tokens are records of their claims plus the secret that  *)
(* signed them.                                                            *)
(***************************************************************************)
EXTENDS Integers, FiniteSets, Sequences, TLC

\* ------------------------------------------------------------------ bounds
MaxTime == 2
NumPhones == 2
NumCodes == 2
MaxOtpRows == 2
MaxJti == 3
MaxCalls == 5
MaxConcCalls == 4
MaxAccountCalls == 4
MaxLiveCalls == 4
\* settings.* values (environment supplied, no default in config.py)
MAX_OTP_ATTEMPTS == 2
OTP_EXPIRE_MINUTES == 1
REFRESH_TOKEN_EXPIRE_DAYS == 1
ACCESS_TOKEN_EXPIRE_MINUTES == 1

Phones == 1..NumPhones
Codes == 1..NumCodes
Procs == {1, 2}

VARIABLES
    now,        \* datetime.now(UTC)
    settings,   \* [ROTATE_REFRESH_TOKENS, APP_ENV, DEBUG_OTP_IN_RESPONSE]
    otps,       \* pending_otps table
    sessions,   \* user_sessions table
    users,      \* users table
    minted,     \* refresh tokens produced by create_refresh_token_with_jti
    nextOtpId,  \* autoincrement of pending_otps.id
    nextJti,    \* source of fresh uuid4 values
    resp,       \* outcome of the last completed call
    procs,      \* in-flight requests (used by the interleaved specification)
    calls,      \* number of requests started so far
    challenge,  \* history: per phone, what happened to the challenge of the last send_otp
    granted,    \* history: per OTP id, number of verifications that returned success
    revoked     \* history: <<jti, reason, successor jti>> of completed revocations

vars == <<now, settings, otps, sessions, users, minted, nextOtpId, nextJti,
          resp, procs, calls, challenge, granted, revoked>>

hist == <<challenge, granted, revoked>>

\* ------------------------------------------------------------ token issuer
\* sub: user id, 0 = claim absent, -1 = present but not an integer string
\* jti: 0 = claim absent
SubValues == 1..NumPhones
MalformedTokens ==
    { [sig |-> "forged",  sub |-> 1,  jti |-> 1, exp |-> MaxTime + 1],
      [sig |-> "refresh", sub |-> 1,  jti |-> 0, exp |-> MaxTime + 1],
      [sig |-> "refresh", sub |-> 0,  jti |-> 1, exp |-> MaxTime + 1],
      [sig |-> "refresh", sub |-> -1, jti |-> 1, exp |-> MaxTime + 1],
      [sig |-> "access",  sub |-> 1,  jti |-> 1, exp |-> MaxTime + 1] }

\* every access token carries a uuid4 jti of its own, which no session has
AccessJti == MaxJti + 1

create_access_token(subject, t) ==
    [sig |-> "access", sub |-> subject, jti |-> AccessJti,
     exp |-> t + ACCESS_TOKEN_EXPIRE_MINUTES]

\* an access token is minted with every refresh token and at every refresh:
\* the tokens create_access_token may have produced so far, by subject and time
MintedAccessTokens ==
    {create_access_token(tok.sub, t) : tok \in minted, t \in 0..now}

PresentedTokens == minted \cup MalformedTokens

\* what a client holds after logging in: tokens of both kinds
BearerTokens == PresentedTokens \cup MintedAccessTokens

create_refresh_token_with_jti(subject, t, jti) ==
    [sig |-> "refresh", sub |-> subject, jti |-> jti,
     exp |-> t + REFRESH_TOKEN_EXPIRE_DAYS]

\* variant: one secret signs both kinds of token
jwt_decode_any_secret(tok, verify_exp, t) ==
    /\ tok.sig \in {"refresh", "access"}
    /\ (verify_exp => tok.exp >= t)

\* jwt.decode(token, REFRESH_TOKEN_SECRET_KEY, options={"verify_exp": v})
jwt_decode_refresh(tok, verify_exp, t) ==
    /\ tok.sig = "refresh"
    /\ (verify_exp => tok.exp >= t)

\* ---------------------------------------------------------------- OTP store
hash_otp_value(otp) == <<"OTP_HASH_SALT", otp>>

verify_otp_value(plain_otp, hashed_otp_from_storage) ==
    hash_otp_value(plain_otp) = hashed_otp_from_storage

IsActiveOtp(r, t) ==
    r.status = "PENDING" /\ r.expires_at > t /\ r.attempts_left > 0

\* the rows selected by get_active_pending_otp_by_phone's statement
get_active_pending_otp_by_phone(tbl, phone_number, t) ==
    {r \in tbl : r.phone_number = phone_number /\ IsActiveOtp(r, t)}

create_pending_otp(tbl, id, phone_number, plain_otp, t) ==
    tbl \cup { [id |-> id,
                status |-> "PENDING",
                phone_number |-> phone_number,
                hashed_otp |-> hash_otp_value(plain_otp),
                expires_at |-> t + OTP_EXPIRE_MINUTES,
                attempts_left |-> MAX_OTP_ATTEMPTS] }

\* result.rowcount of the UPDATE of invalidate_existing_pending_otps
invalidate_existing_rowcount(tbl, phone_number) ==
    Cardinality({r \in tbl : r.phone_number = phone_number /\ r.status = "PENDING"})

\* variant: the UPDATE of the earlier rows is never issued
invalidate_existing_keeps_rows(tbl, phone_number) == tbl

invalidate_existing_pending_otps(tbl, phone_number) ==
    { IF r.phone_number = phone_number /\ r.status = "PENDING"
        THEN [r EXCEPT !.status = "EXPIRED", !.attempts_left = 0]
        ELSE r : r \in tbl }

\* variant: a matching code leaves the row as it was loaded
VerifyBranch_not_consumed(active_otp, submitted_otp, t) ==
    IF active_otp.expires_at <= t
      THEN [status |-> "EXPIRED", attempts_left |-> 0, success |-> FALSE,
            msg |-> "EXPIRED_DURING_VERIFICATION"]
    ELSE IF ~verify_otp_value(submitted_otp, active_otp.hashed_otp)
      THEN IF active_otp.attempts_left - 1 <= 0
             THEN [status |-> "MAX_ATTEMPTS",
                   attempts_left |-> active_otp.attempts_left - 1,
                   success |-> FALSE, msg |-> "MAX_ATTEMPTS_REACHED"]
             ELSE [status |-> active_otp.status,
                   attempts_left |-> active_otp.attempts_left - 1,
                   success |-> FALSE, msg |-> "INVALID_ATTEMPT"]
    ELSE [status |-> active_otp.status, attempts_left |-> active_otp.attempts_left,
          success |-> TRUE, msg |-> "SUCCESSFULLY_VERIFIED"]

\* variant: a mismatch takes two attempts from the row
VerifyBranch_double_decrement(active_otp, submitted_otp, t) ==
    IF active_otp.expires_at <= t
      THEN [status |-> "EXPIRED", attempts_left |-> 0, success |-> FALSE,
            msg |-> "EXPIRED_DURING_VERIFICATION"]
    ELSE IF ~verify_otp_value(submitted_otp, active_otp.hashed_otp)
      THEN IF active_otp.attempts_left - 2 <= 0
             THEN [status |-> "MAX_ATTEMPTS",
                   attempts_left |-> active_otp.attempts_left - 2,
                   success |-> FALSE, msg |-> "MAX_ATTEMPTS_REACHED"]
             ELSE [status |-> active_otp.status,
                   attempts_left |-> active_otp.attempts_left - 2,
                   success |-> FALSE, msg |-> "INVALID_ATTEMPT"]
    ELSE [status |-> "VERIFIED", attempts_left |-> 0, success |-> TRUE,
          msg |-> "SUCCESSFULLY_VERIFIED"]

\* variant: the exhaustion test is off by one (< 0 for <= 0)
VerifyBranch_off_by_one(active_otp, submitted_otp, t) ==
    IF active_otp.expires_at <= t
      THEN [status |-> "EXPIRED", attempts_left |-> 0, success |-> FALSE,
            msg |-> "EXPIRED_DURING_VERIFICATION"]
    ELSE IF ~verify_otp_value(submitted_otp, active_otp.hashed_otp)
      THEN IF active_otp.attempts_left - 1 < 0
             THEN [status |-> "MAX_ATTEMPTS",
                   attempts_left |-> active_otp.attempts_left - 1,
                   success |-> FALSE, msg |-> "MAX_ATTEMPTS_REACHED"]
             ELSE [status |-> active_otp.status,
                   attempts_left |-> active_otp.attempts_left - 1,
                   success |-> FALSE, msg |-> "INVALID_ATTEMPT"]
    ELSE [status |-> "VERIFIED", attempts_left |-> 0, success |-> TRUE,
          msg |-> "SUCCESSFULLY_VERIFIED"]

\* the branch of verify_and_consume_otp taken on the loaded row: the new
\* column values, the success flag and the message
VerifyBranch(active_otp, submitted_otp, t) ==
    IF active_otp.expires_at <= t
      THEN [status |-> "EXPIRED", attempts_left |-> 0, success |-> FALSE,
            msg |-> "EXPIRED_DURING_VERIFICATION"]
    ELSE IF ~verify_otp_value(submitted_otp, active_otp.hashed_otp)
      THEN IF active_otp.attempts_left - 1 <= 0
             THEN [status |-> "MAX_ATTEMPTS",
                   attempts_left |-> active_otp.attempts_left - 1,
                   success |-> FALSE, msg |-> "MAX_ATTEMPTS_REACHED"]
             ELSE [status |-> active_otp.status,
                   attempts_left |-> active_otp.attempts_left - 1,
                   success |-> FALSE, msg |-> "INVALID_ATTEMPT"]
    ELSE [status |-> "VERIFIED", attempts_left |-> 0, success |-> TRUE,
          msg |-> "SUCCESSFULLY_VERIFIED"]

\* variant: the UPDATE has no WHERE clause on the row id
WriteOtp_every_row(tbl, loaded, status, attempts_left) ==
    { [r EXCEPT !.status = status, !.attempts_left = attempts_left] : r \in tbl }

\* commit of a loaded row whose attributes were assigned: the UPDATE carries
\* the columns whose assigned value differs from the loaded one
WriteOtp(tbl, loaded, status, attempts_left) ==
    { IF r.id = loaded.id
        THEN [r EXCEPT !.status = IF status # loaded.status THEN status ELSE @,
                       !.attempts_left = IF attempts_left # loaded.attempts_left
                                           THEN attempts_left ELSE @]
        ELSE r : r \in tbl }

\* verify_and_consume_otp as one uninterrupted call: t1 is the clock read by
\* the active-row query, t2 the clock read by the expiry re-check
verify_and_consume_otp(tbl, phone_number, submitted_otp, t1, t2) ==
    LET found == get_active_pending_otp_by_phone(tbl, phone_number, t1) IN
    IF found = {}
      THEN [success |-> FALSE, msg |-> "VERIFY_NO_ACTIVE", tbl |-> tbl, otp_id |-> 0]
    ELSE IF Cardinality(found) > 1
      THEN [success |-> FALSE, msg |-> "MultipleResultsFound", tbl |-> tbl, otp_id |-> 0]
    ELSE LET active_otp == CHOOSE r \in found : TRUE
             b == VerifyBranch(active_otp, submitted_otp, t2)
         IN [success |-> b.success, msg |-> b.msg,
             tbl |-> WriteOtp(tbl, active_otp, b.status, b.attempts_left),
             otp_id |-> active_otp.id]

\* variant: the failure is not written to the row
set_otp_sending_error_skipped(tbl, otp_id) == tbl

\* db.get(PendingOTP, otp_id) then status / attempts_left assigned and committed
set_otp_sending_error(tbl, otp_id) ==
    { IF r.id = otp_id
        THEN [r EXCEPT !.status = "ERROR_SENDING", !.attempts_left = 0]
        ELSE r : r \in tbl }

TerminalStatuses == {"EXPIRED", "VERIFIED", "MAX_ATTEMPTS", "ERROR_SENDING"}

\* variant: the DELETE tests expires_at alone
cleanup_expired_otps_by_time_only(tbl, t) ==
    {r \in tbl : ~(r.expires_at < t)}

cleanup_expired_otps(tbl, t) ==
    {r \in tbl : ~(r.expires_at < t \/ r.status \in TerminalStatuses)}

\* ------------------------------------------------------------ session store
\* variant: the session is never added
create_user_session_not_stored(tbl, user_id, refresh_token_jti, expires_at) == tbl

create_user_session(tbl, user_id, refresh_token_jti, expires_at) ==
    tbl \cup { [user_id |-> user_id,
                refresh_token_jti |-> refresh_token_jti,
                expires_at |-> expires_at,
                is_active |-> TRUE] }

get_session_by_jti(tbl, refresh_token_jti) ==
    {s \in tbl : s.refresh_token_jti = refresh_token_jti}

\* variant: the lookup does not compare expires_at with the clock
get_session_ignoring_expiry(tbl, refresh_token_jti, user_id, t) ==
    {s \in tbl : /\ s.refresh_token_jti = refresh_token_jti
                 /\ s.user_id = user_id
                 /\ s.is_active}

get_active_session_by_jti_and_user(tbl, refresh_token_jti, user_id, t) ==
    {s \in tbl : /\ s.refresh_token_jti = refresh_token_jti
                 /\ s.user_id = user_id
                 /\ s.is_active
                 /\ s.expires_at > t}

\* variant: the session is handed back without being written
invalidate_session_not_written(tbl, jti, t) == tbl

\* commit of a loaded session: UPDATE ... WHERE the row is that session
invalidate_session(tbl, jti, t) ==
    { IF s.refresh_token_jti = jti
        THEN [s EXCEPT !.is_active = FALSE, !.expires_at = t]
        ELSE s : s \in tbl }

\* variant: every active session of the owner of the found session is written
invalidate_session_by_jti_whole_user(tbl, refresh_token_jti, t) ==
    LET found == get_session_by_jti(tbl, refresh_token_jti) IN
    { IF s.is_active /\ \E f \in found : f.user_id = s.user_id
        THEN [s EXCEPT !.is_active = FALSE, !.expires_at = t]
        ELSE s : s \in tbl }

\* variant: no test of is_active, every found session is written
invalidate_session_by_jti_rewrites(tbl, refresh_token_jti, t) ==
    IF get_session_by_jti(tbl, refresh_token_jti) = {} THEN tbl
    ELSE invalidate_session(tbl, refresh_token_jti, t)

\* variant: the test of is_active is inverted
invalidate_session_by_jti_inverted(tbl, refresh_token_jti, t) ==
    LET found == get_session_by_jti(tbl, refresh_token_jti) IN
    IF found = {} THEN tbl
    ELSE IF \E s \in found : s.is_active THEN tbl
    ELSE invalidate_session(tbl, refresh_token_jti, t)

invalidate_session_by_jti(tbl, refresh_token_jti, t) ==
    LET found == get_session_by_jti(tbl, refresh_token_jti) IN
    IF found = {} THEN tbl
    ELSE IF \A s \in found : ~s.is_active THEN tbl
    ELSE invalidate_session(tbl, refresh_token_jti, t)

\* variant: the DELETE has no test of expires_at
cleanup_sessions_keeps_expired(tbl, t) == {s \in tbl : s.is_active}

cleanup_revoked_and_expired_sessions(tbl, t) ==
    {s \in tbl : ~(s.is_active = FALSE \/ s.expires_at < t)}

Usable(s, t) == s.is_active /\ s.expires_at > t

\* ------------------------------------------------------------ user directory
get_by_phone_number(tbl, phone_number) ==
    {u \in tbl : u.phone_number = phone_number}

create_user_for_otp_flow(tbl, id, phone_number) ==
    tbl \cup { [id |-> id, phone_number |-> phone_number, is_active |-> TRUE] }

\* UserRepository.delete through the ORM: the user's sessions go with the row
\* (relationship cascade "all, delete-orphan", foreign key ON DELETE CASCADE)
delete_user(tbl, user_id) == {u \in tbl : u.id # user_id}

delete_sessions_of(tbl, user_id) == {s \in tbl : s.user_id # user_id}

set_active_status(tbl, user_id, is_active) ==
    { IF u.id = user_id THEN [u EXCEPT !.is_active = is_active] ELSE u : u \in tbl }

\* get_current_user: the bearer token is decoded with the access secret, its
\* payload validated, the user loaded; the status it answers and the user
get_current_user(tbl, tok, t) ==
    LET found == {u \in tbl : u.id = tok.sub} IN
    IF tok.sig # "access" \/ tok.exp < t THEN [status |-> 401, user_id |-> 0]
    ELSE IF tok.sub = 0 \/ tok.sub = -1 THEN [status |-> 422, user_id |-> 0]
    ELSE IF found = {} THEN [status |-> 404, user_id |-> 0]
    ELSE IF \E u \in found : ~u.is_active THEN [status |-> 403, user_id |-> 0]
    ELSE [status |-> 200, user_id |-> tok.sub]

\* ------------------------------------------------------------------- state
\* the outcome of a call: subject is the phone number of an OTP call or the
\* jti of the token presented to a token call; jti / access tell which tokens
\* the call minted; is_new_user and returned (the jti of the refresh token)
\* are the values the call hands to Token(...)
Resp(op, subject, status, msg) ==
    [op |-> op, subject |-> subject, status |-> status, msg |-> msg,
     otp_ok |-> FALSE, jti |-> 0, access |-> FALSE, debug_otp |-> 0,
     is_new_user |-> FALSE, returned |-> 0]

\* no response was emitted by the last step
NoResp == Resp("none", 0, 0, "")

NoOtp == [id |-> 0, status |-> "PENDING", phone_number |-> 0,
          hashed_otp |-> hash_otp_value(0), expires_at |-> 0, attempts_left |-> 0]
NoToken == [sig |-> "none", sub |-> 0, jti |-> 0, exp |-> 0]
NoSession == [user_id |-> 0, refresh_token_jti |-> 0, expires_at |-> 0,
              is_active |-> FALSE]
Idle == [pc |-> "idle", phone |-> 0, code |-> 0, otp |-> NoOtp, tok |-> NoToken,
         sess |-> NoSession, user |-> 0]

AppEnvValues == {"dev", "prod"}

\* variant: the debug flag alone decides, whatever the environment
DebugOtp_any_env(cfg) == cfg.DEBUG_OTP_IN_RESPONSE

\* variant: rotation whatever the setting
RotationEnabled_always(cfg) == TRUE

\* the send_otp test for the debug short-circuit
DebugOtp(cfg) == cfg.APP_ENV = "dev" /\ cfg.DEBUG_OTP_IN_RESPONSE

\* the refresh_access_token test for rotation
RotationEnabled(cfg) == cfg.ROTATE_REFRESH_TOKENS

\* variant: every login is taken for a first login
is_new_user_always(found) == TRUE

\* verify_otp_and_grant_access: no user was found for the phone, one is made
is_new_user(found) == found = {}

\* variant: inactive users are let in
LoginBlocked_never(found) == FALSE

\* the verify_otp_and_grant_access test on the user found for the phone
LoginBlocked(found) == \E u \in found : ~u.is_active

\* any configuration, empty database
InitAll ==
    /\ now = 0
    /\ settings \in [ROTATE_REFRESH_TOKENS : BOOLEAN, APP_ENV : AppEnvValues,
                     DEBUG_OTP_IN_RESPONSE : BOOLEAN]
    /\ otps = {}
    /\ sessions = {}
    /\ users = {}
    /\ minted = {}
    /\ nextOtpId = 1
    /\ nextJti = 1
    /\ resp = NoResp
    /\ procs = [p \in Procs |-> Idle]
    /\ calls = 0
    /\ challenge = [ph \in Phones |-> [kind |-> "none", code |-> 0, wrong |-> 0]]
    /\ granted = [i \in 1..MaxOtpRows |-> 0]
    /\ revoked = {}

\* the default environment (APP_ENV = dev)
Init ==
    /\ InitAll
    /\ settings.APP_ENV = "dev"

\* users.id autoincrement: one past every id ever given; each user gets a
\* refresh token in the request that creates it, so minted remembers the ids
\* of deleted users
NextUserId ==
    LET given == {u.id : u \in users} \cup {tok.sub : tok \in minted}
    IN IF given = {} THEN 1
       ELSE (CHOOSE m \in given : \A n \in given : n <= m) + 1

AllIdle == \A p \in Procs : procs[p].pc = "idle"

\* a request may start while the budget of requests lasts
Start ==
    /\ calls < MaxCalls
    /\ calls' = calls + 1

\* ------------------------------------------------- whole-request operations
\* AuthService.send_otp; sms is the outcome of sms_service.send_sms
SendOtp(phone_number, plaintext_otp, sms) ==
    /\ AllIdle
    /\ Start
    /\ nextOtpId <= MaxOtpRows
    /\ LET invalidated == invalidate_existing_pending_otps(otps, phone_number)
           created == create_pending_otp(invalidated, nextOtpId, phone_number,
                                         plaintext_otp, now)
       IN IF DebugOtp(settings)
            THEN /\ otps' = created
                 /\ resp' = [Resp("send_otp", phone_number, 200, "OTP_DEBUG_MODE")
                               EXCEPT !.debug_otp = plaintext_otp]
          ELSE IF sms = "sent"
            THEN /\ otps' = created
                 /\ resp' = Resp("send_otp", phone_number, 200, "OTP_SENT_SUCCESSFULLY")
          ELSE IF sms = "exception"
            THEN /\ otps' = set_otp_sending_error(created, nextOtpId)
                 /\ resp' = Resp("send_otp", phone_number, 503, "SMS_SERVICE_UNAVAILABLE")
          ELSE /\ otps' = set_otp_sending_error(created, nextOtpId)
               /\ resp' = Resp("send_otp", phone_number, 500, "OTP_SMS_SEND_FAILED")
    /\ nextOtpId' = nextOtpId + 1
    /\ challenge' = [challenge EXCEPT ![phone_number] =
                        [kind |-> "open", code |-> 0, wrong |-> 0]]
    /\ UNCHANGED <<now, settings, sessions, users, minted, nextJti, procs,
                   granted, revoked>>

\* history kept about the challenge of a phone after a verification
ChallengeAfter(ch, v, submitted_otp) ==
    IF v.msg = "SUCCESSFULLY_VERIFIED"
      THEN [ch EXCEPT !.kind = "VERIFIED", !.code = submitted_otp]
    ELSE IF v.msg = "MAX_ATTEMPTS_REACHED"
      THEN [ch EXCEPT !.kind = "MAX_ATTEMPTS", !.wrong = @ + 1]
    ELSE IF v.msg = "INVALID_ATTEMPT"
      THEN [ch EXCEPT !.wrong = @ + 1]
    ELSE ch

\* AuthService.verify_otp_and_grant_access; d is the time that passes between
\* the two clock reads of verify_and_consume_otp
VerifyOtpAndGrantAccess(phone_number, otp_code, d) ==
    /\ AllIdle
    /\ Start
    /\ now + d <= MaxTime
    /\ now' = now + d
    /\ LET v == verify_and_consume_otp(otps, phone_number, otp_code, now, now + d)
           found == get_by_phone_number(users, phone_number)
           table == IF is_new_user(found)
                      THEN create_user_for_otp_flow(users, NextUserId, phone_number)
                    ELSE users
           user == CHOOSE u \in get_by_phone_number(table, phone_number) : TRUE
           tok == create_refresh_token_with_jti(user.id, now + d, nextJti)
       IN /\ otps' = v.tbl
          /\ challenge' = [challenge EXCEPT ![phone_number] =
                              ChallengeAfter(@, v, otp_code)]
          /\ granted' = IF v.success THEN [granted EXCEPT ![v.otp_id] = @ + 1]
                        ELSE granted
          /\ IF ~v.success
               THEN /\ resp' = [Resp("verify_otp_and_grant_access", phone_number,
                                      IF v.msg = "MultipleResultsFound" THEN 500 ELSE 400,
                                      v.msg) EXCEPT !.otp_ok = FALSE]
                    /\ UNCHANGED <<users, sessions, minted, nextJti>>
             ELSE IF LoginBlocked(found)
               THEN /\ resp' = [Resp("verify_otp_and_grant_access", phone_number, 403, "USER_INACTIVE")
                                  EXCEPT !.otp_ok = TRUE]
                    /\ UNCHANGED <<users, sessions, minted, nextJti>>
             ELSE /\ nextJti <= MaxJti
                  /\ users' = table
                  /\ minted' = minted \cup {tok}
                  /\ sessions' = create_user_session(sessions, user.id, nextJti,
                                      now + d + REFRESH_TOKEN_EXPIRE_DAYS)
                  /\ nextJti' = nextJti + 1
                  \* Token(...) is built without is_profile_complete and
                  \* is_app_setup_complete: pydantic raises, the route answers 500
                  /\ resp' = [Resp("verify_otp_and_grant_access", phone_number, 500, "ValidationError")
                                EXCEPT !.otp_ok = TRUE, !.jti = nextJti, !.access = TRUE,
                                       !.is_new_user = is_new_user(found), !.returned = nextJti]
    /\ UNCHANGED <<settings, nextOtpId, procs, revoked>>

\* AuthService.refresh_access_token
RefreshAccessToken(tok) ==
    /\ AllIdle
    /\ Start
    /\ LET found == get_active_session_by_jti_and_user(sessions, tok.jti, tok.sub, now)
           user_session == CHOOSE s \in found : TRUE
           owner == {u \in users : u.id = user_session.user_id}
           new_tok == create_refresh_token_with_jti(user_session.user_id, now, nextJti)
           R(status, msg) == Resp("refresh_access_token", tok.jti, status, msg)
       IN IF ~jwt_decode_refresh(tok, TRUE, now)
            THEN /\ resp' = R(401, "REFRESH_TOKEN_INVALID_OR_EXPIRED")
                 /\ UNCHANGED <<sessions, minted, nextJti, revoked>>
          ELSE IF tok.sub = 0 \/ tok.jti = 0 \/ tok.sub = -1
            THEN /\ resp' = R(401, "REFRESH_TOKEN_INVALID")
                 /\ UNCHANGED <<sessions, minted, nextJti, revoked>>
          ELSE IF found = {}
            THEN /\ resp' = R(401, "SESSION_NOT_FOUND_OR_REVOKED")
                 /\ UNCHANGED <<sessions, minted, nextJti, revoked>>
          ELSE IF owner = {}
            \* BaseRepository.get raises NoResultFound, nothing catches it
            THEN /\ resp' = R(500, "NoResultFound")
                 /\ UNCHANGED <<sessions, minted, nextJti, revoked>>
          ELSE IF \E u \in owner : ~u.is_active
            THEN /\ sessions' = invalidate_session(sessions, tok.jti, now)
                 /\ revoked' = revoked \cup {<<tok.jti, "user_inactive", 0>>}
                 /\ resp' = R(401, "USER_INACTIVE_OR_NOT_FOUND")
                 /\ UNCHANGED <<minted, nextJti>>
          ELSE IF RotationEnabled(settings)
            THEN /\ nextJti <= MaxJti
                 /\ sessions' = create_user_session(
                                    invalidate_session(sessions, tok.jti, now),
                                    user_session.user_id, nextJti,
                                    now + REFRESH_TOKEN_EXPIRE_DAYS)
                 /\ minted' = minted \cup {new_tok}
                 /\ nextJti' = nextJti + 1
                 /\ revoked' = revoked \cup {<<tok.jti, "rotation", nextJti>>}
                 /\ resp' = [R(500, "ValidationError")
                               EXCEPT !.jti = nextJti, !.access = TRUE,
                                      !.returned = nextJti]
          ELSE /\ resp' = [R(500, "ValidationError")
                             EXCEPT !.access = TRUE, !.returned = tok.jti]
               /\ UNCHANGED <<sessions, minted, nextJti, revoked>>
    /\ UNCHANGED <<now, settings, otps, users, nextOtpId, procs,
                   challenge, granted>>

\* variant: the owner of the token is not compared with the caller
LogoutTokenCheck_any_owner(current_user_id, tok, t) ==
    IF ~jwt_decode_refresh(tok, FALSE, t) THEN "JWTError"
    ELSE IF tok.jti = 0 \/ tok.sub = 0 THEN "malformed"
    ELSE IF tok.sub = -1 THEN "ValueError"
    ELSE "ok"

\* variant: sub is compared with the caller before it is parsed as an integer
LogoutTokenCheck_compare_unparsed(current_user_id, tok, t) ==
    IF ~jwt_decode_refresh(tok, FALSE, t) THEN "JWTError"
    ELSE IF tok.jti = 0 \/ tok.sub = 0 THEN "malformed"
    ELSE IF current_user_id # tok.sub THEN "forbidden"
    ELSE "ok"

\* the decoding and validation of the token handed to logout_user: which of
\* its exits the call takes before it touches the session store
LogoutTokenCheck(current_user_id, tok, t) ==
    IF ~jwt_decode_refresh(tok, FALSE, t) THEN "JWTError"
    ELSE IF tok.jti = 0 \/ tok.sub = 0 THEN "malformed"
    ELSE IF tok.sub = -1 THEN "ValueError"
    ELSE IF current_user_id # tok.sub THEN "forbidden"
    ELSE "ok"

\* AuthService.logout_user; current_user_id comes from get_current_user
LogoutUser(current_user_id, tok) ==
    /\ AllIdle
    /\ Start
    /\ \E u \in users : u.id = current_user_id /\ u.is_active
    /\ LET R(status, msg) == Resp("logout_user", tok.jti, status, msg)
           found == get_session_by_jti(sessions, tok.jti)
           check == LogoutTokenCheck(current_user_id, tok, now)
       IN IF check = "JWTError"
            THEN /\ resp' = R(204, "LOGOUT_INVALID_EXPIRED_TOKEN")
                 /\ UNCHANGED <<sessions, revoked>>
          ELSE IF check = "malformed"
            THEN /\ resp' = R(204, "LOGOUT_MALFORMED_TOKEN")
                 /\ UNCHANGED <<sessions, revoked>>
          ELSE IF check = "ValueError"
            THEN /\ resp' = R(204, "LOGOUT_INVALID_SUB_FORMAT")
                 /\ UNCHANGED <<sessions, revoked>>
          ELSE IF check = "forbidden"
            THEN /\ resp' = R(403, "LOGOUT_FORBIDDEN_OTHER_USER")
                 /\ UNCHANGED <<sessions, revoked>>
          ELSE /\ sessions' = invalidate_session_by_jti(sessions, tok.jti, now)
               /\ revoked' = IF \E s \in found : s.is_active
                               THEN revoked \cup {<<tok.jti, "logout", 0>>}
                               ELSE revoked
               /\ resp' = R(204, IF found = {} THEN "LOGOUT_NO_ACTIVE_SESSION_FOR_JTI"
                                 ELSE IF \E s \in found : s.user_id # tok.sub
                                   THEN "LOGOUT_JTI_USER_MISMATCH_ALERT"
                                 ELSE "LOGOUT_SESSION_INVALIDATED")
    /\ UNCHANGED <<now, settings, otps, users, minted, nextOtpId, nextJti, procs,
                   challenge, granted>>

\* PendingOTPRepository.cleanup_expired_otps run by housekeeping
CleanupExpiredOtps ==
    /\ Start
    /\ otps' = cleanup_expired_otps(otps, now)
    /\ resp' = Resp("cleanup_expired_otps", 0, 0, "")
    /\ UNCHANGED <<now, settings, sessions, users, minted, nextOtpId, nextJti,
                   procs, hist>>

\* UserSessionRepository.cleanup_revoked_and_expired_sessions
CleanupSessions ==
    /\ Start
    /\ sessions' = cleanup_revoked_and_expired_sessions(sessions, now)
    /\ resp' = Resp("cleanup_revoked_and_expired_sessions", 0, 0, "")
    /\ UNCHANGED <<now, settings, otps, users, minted, nextOtpId, nextJti,
                   procs, hist>>

\* UserService.set_user_active_status
SetActive(user_id, is_active) ==
    /\ AllIdle
    /\ \E u \in users : u.id = user_id /\ u.is_active # is_active
    /\ users' = set_active_status(users, user_id, is_active)
    /\ resp' = Resp("set_user_active_status", 0, 0, "")
    /\ UNCHANGED <<now, settings, otps, sessions, minted, nextOtpId, nextJti,
                   procs, hist>>

\* ... as one of the budgeted requests
SetUserActiveStatus(user_id, is_active) ==
    /\ Start
    /\ SetActive(user_id, is_active)

\* ... by an administrator, outside the budget of client requests
AdminSetUserActiveStatus(user_id, is_active) ==
    /\ calls' = calls
    /\ SetActive(user_id, is_active)

\* a request to a route that depends on get_current_user, seen up to the
\* dependency: the bearer token is accepted or refused
CurrentUser(tok) ==
    /\ AllIdle
    /\ Start
    /\ resp' = Resp("get_current_user", tok.jti,
                     get_current_user(users, tok, now).status, "")
    /\ UNCHANGED <<now, settings, otps, sessions, users, minted, nextOtpId,
                   nextJti, procs, hist>>

\* the clock advances between calls
Tick ==
    /\ now < MaxTime
    /\ now' = now + 1
    /\ resp' = NoResp
    /\ UNCHANGED <<settings, otps, sessions, users, minted, nextOtpId, nextJti,
                   procs, calls, hist>>

SmsOutcomes == {"sent", "false", "exception"}

Next ==
    \/ \E ph \in Phones, c \in Codes, sms \in SmsOutcomes : SendOtp(ph, c, sms)
    \/ \E ph \in Phones, c \in Codes, d \in {0, 1} : VerifyOtpAndGrantAccess(ph, c, d)
    \/ \E tok \in PresentedTokens : RefreshAccessToken(tok)
    \/ \E u \in SubValues, tok \in PresentedTokens : LogoutUser(u, tok)
    \/ CleanupExpiredOtps
    \/ CleanupSessions
    \/ \E u \in SubValues, b \in BOOLEAN : SetUserActiveStatus(u, b)
    \/ Tick

Spec == Init /\ [][Next]_vars

\* accounts and bearer tokens: clients log in, refresh, log out and call
\* authenticated routes with any token they hold while an administrator
\* deactivates and reactivates users
\* the budget of client requests of this specification
InBudget == calls < MaxAccountCalls

NextAccounts ==
    \/ \E ph \in Phones, c \in Codes, sms \in SmsOutcomes :
          InBudget /\ SendOtp(ph, c, sms)
    \/ \E ph \in Phones, c \in Codes, d \in {0, 1} :
          InBudget /\ VerifyOtpAndGrantAccess(ph, c, d)
    \/ \E tok \in BearerTokens : InBudget /\ RefreshAccessToken(tok)
    \/ \E u \in SubValues, tok \in BearerTokens : InBudget /\ LogoutUser(u, tok)
    \/ \E tok \in BearerTokens : InBudget /\ CurrentUser(tok)
    \/ \E u \in SubValues, b \in BOOLEAN : AdminSetUserActiveStatus(u, b)
    \/ Tick

SpecAccounts == Init /\ [][NextAccounts]_vars

\* the OTP store called directly: set_otp_sending_error for any id
SetOtpSendingError(otp_id) ==
    /\ AllIdle
    /\ Start
    /\ otps' = set_otp_sending_error(otps, otp_id)
    /\ resp' = Resp("set_otp_sending_error", 0, 0, "")
    /\ UNCHANGED <<now, settings, sessions, users, minted, nextOtpId, nextJti,
                   procs, hist>>

NextStore ==
    \/ Next
    \/ \E id \in 1..MaxOtpRows : SetOtpSendingError(id)

SpecStore == Init /\ [][NextStore]_vars

\* the OTP store called directly, every method for any argument
CreatePendingOtp(phone_number, plain_otp) ==
    /\ AllIdle
    /\ Start
    /\ nextOtpId <= MaxOtpRows
    /\ otps' = create_pending_otp(otps, nextOtpId, phone_number, plain_otp, now)
    /\ nextOtpId' = nextOtpId + 1
    /\ resp' = Resp("create_pending_otp", phone_number, 0, "")
    /\ UNCHANGED <<now, settings, sessions, users, minted, nextJti, procs, hist>>

InvalidateExistingPendingOtps(phone_number) ==
    /\ AllIdle
    /\ Start
    /\ otps' = invalidate_existing_pending_otps(otps, phone_number)
    /\ resp' = [Resp("invalidate_existing_pending_otps", phone_number, 0, "")
                  EXCEPT !.returned = invalidate_existing_rowcount(otps, phone_number)]
    /\ UNCHANGED <<now, settings, sessions, users, minted, nextOtpId, nextJti,
                   procs, hist>>

VerifyAndConsumeOtp(phone_number, submitted_otp, d) ==
    /\ AllIdle
    /\ Start
    /\ now + d <= MaxTime
    /\ now' = now + d
    /\ LET v == verify_and_consume_otp(otps, phone_number, submitted_otp, now, now + d)
       IN /\ otps' = v.tbl
          /\ resp' = [Resp("verify_and_consume_otp", phone_number, 0, v.msg)
                        EXCEPT !.otp_ok = v.success]
          /\ granted' = IF v.success THEN [granted EXCEPT ![v.otp_id] = @ + 1]
                        ELSE granted
    /\ UNCHANGED <<settings, sessions, users, minted, nextOtpId, nextJti, procs,
                   challenge, revoked>>

NextOtpStore ==
    \/ \E ph \in Phones, c \in Codes : CreatePendingOtp(ph, c)
    \/ \E ph \in Phones : InvalidateExistingPendingOtps(ph)
    \/ \E ph \in Phones, c \in Codes, d \in {0, 1} : VerifyAndConsumeOtp(ph, c, d)
    \/ \E id \in 1..MaxOtpRows : SetOtpSendingError(id)
    \/ CleanupExpiredOtps
    \/ Tick

SpecOtpStore == Init /\ [][NextOtpStore]_vars

\* the OTP store with housekeeping on a timer: store calls arrive while
\* now <= MaxTime, the clock runs on past the expiry of every row they can
\* make, and cleanup_expired_otps is run outside the budget of the callers
Horizon == MaxTime + OTP_EXPIRE_MINUTES + 1

InLive == now <= MaxTime /\ calls < MaxLiveCalls

LiveCreatePendingOtp(phone_number, plain_otp) ==
    InLive /\ CreatePendingOtp(phone_number, plain_otp)

LiveInvalidateExistingPendingOtps(phone_number) ==
    InLive /\ InvalidateExistingPendingOtps(phone_number)

LiveVerifyAndConsumeOtp(phone_number, submitted_otp, d) ==
    InLive /\ VerifyAndConsumeOtp(phone_number, submitted_otp, d)

LiveSetOtpSendingError(otp_id) ==
    InLive /\ SetOtpSendingError(otp_id)

Housekeeping ==
    /\ otps' = cleanup_expired_otps(otps, now)
    /\ resp' = Resp("cleanup_expired_otps", 0, 0, "")
    /\ UNCHANGED <<now, settings, sessions, users, minted, nextOtpId, nextJti,
                   procs, calls, hist>>

ClockAdvances ==
    /\ now < Horizon
    /\ now' = now + 1
    /\ resp' = NoResp
    /\ UNCHANGED <<settings, otps, sessions, users, minted, nextOtpId, nextJti,
                   procs, calls, hist>>

NextLive ==
    \/ \E ph \in Phones, c \in Codes : LiveCreatePendingOtp(ph, c)
    \/ \E ph \in Phones : LiveInvalidateExistingPendingOtps(ph)
    \/ \E ph \in Phones, c \in Codes, d \in {0, 1} : LiveVerifyAndConsumeOtp(ph, c, d)
    \/ \E id \in 1..MaxOtpRows : LiveSetOtpSendingError(id)
    \/ Housekeeping
    \/ ClockAdvances

\* time keeps advancing and the cleanup keeps being run
SpecLive ==
    Init /\ [][NextLive]_vars /\ WF_vars(ClockAdvances) /\ WF_vars(Housekeeping)

\* the OTP requests under every configuration, production included
NextSend ==
    \/ \E ph \in Phones, c \in Codes, sms \in SmsOutcomes : SendOtp(ph, c, sms)
    \/ \E ph \in Phones, c \in Codes, d \in {0, 1} :
          VerifyOtpAndGrantAccess(ph, c, d)
    \/ CleanupExpiredOtps
    \/ Tick

SpecSend == InitAll /\ [][NextSend]_vars

\* the session store called directly, next to the requests that fill it
\* UserSessionRepository.invalidate_session on a session loaded by its jti
InvalidateSession(refresh_token_jti) ==
    /\ AllIdle
    /\ Start
    /\ get_session_by_jti(sessions, refresh_token_jti) # {}
    /\ sessions' = invalidate_session(sessions, refresh_token_jti, now)
    /\ revoked' = IF \E s \in get_session_by_jti(sessions, refresh_token_jti) : s.is_active
                    THEN revoked \cup {<<refresh_token_jti, "store", 0>>}
                    ELSE revoked
    /\ resp' = Resp("invalidate_session", refresh_token_jti, 0, "")
    /\ UNCHANGED <<now, settings, otps, users, minted, nextOtpId, nextJti, procs,
                   challenge, granted>>

\* UserSessionRepository.invalidate_session_by_jti for any jti
InvalidateSessionByJti(refresh_token_jti) ==
    /\ AllIdle
    /\ Start
    /\ sessions' = invalidate_session_by_jti(sessions, refresh_token_jti, now)
    /\ revoked' = IF \E s \in get_session_by_jti(sessions, refresh_token_jti) : s.is_active
                    THEN revoked \cup {<<refresh_token_jti, "store", 0>>}
                    ELSE revoked
    /\ resp' = Resp("invalidate_session_by_jti", refresh_token_jti, 0,
                     IF get_session_by_jti(sessions, refresh_token_jti) = {}
                       THEN "None" ELSE "session")
    /\ UNCHANGED <<now, settings, otps, users, minted, nextOtpId, nextJti, procs,
                   challenge, granted>>

NextSessions ==
    \/ \E ph \in Phones, c \in Codes : SendOtp(ph, c, "sent")
    \/ \E ph \in Phones, c \in Codes, d \in {0, 1} : VerifyOtpAndGrantAccess(ph, c, d)
    \/ \E tok \in minted : RefreshAccessToken(tok)
    \/ \E jti \in 1..MaxJti : InvalidateSession(jti)
    \/ \E jti \in 1..MaxJti : InvalidateSessionByJti(jti)
    \/ CleanupSessions
    \/ Tick

SpecSessions == Init /\ [][NextSessions]_vars

\* ------------------------------------------------ interleaved request steps
\* Each step is one separately committed store call (or the reads before it);
\* a request keeps the rows it loaded in its own database session.
\* requests are served by interchangeable workers: the second worker takes a
\* request only while the first is busy
Free(p) ==
    /\ procs[p].pc = "idle"
    /\ \A q \in Procs : q < p => procs[q].pc # "idle"
    /\ calls < MaxConcCalls
    /\ calls' = calls + 1

Goto(p, pc) == [procs EXCEPT ![p].pc = pc]
Done(p) == [procs EXCEPT ![p] = Idle]

\* send_otp, step 1: invalidate_existing_pending_otps
CSendInvalidate(p, phone_number) ==
    /\ Free(p)
    /\ otps' = invalidate_existing_pending_otps(otps, phone_number)
    /\ procs' = [procs EXCEPT ![p].pc = "so_create", ![p].phone = phone_number]
    /\ resp' = NoResp
    /\ UNCHANGED <<now, settings, sessions, users, minted, nextOtpId, nextJti,
                   hist>>

\* send_otp, step 2: _generate_otp and create_pending_otp (and the debug return)
CSendCreate(p, plaintext_otp) ==
    /\ procs[p].pc = "so_create"
    /\ nextOtpId <= MaxOtpRows
    /\ LET created == create_pending_otp(otps, nextOtpId, procs[p].phone,
                                         plaintext_otp, now)
           row == CHOOSE r \in created : r.id = nextOtpId
       IN /\ otps' = created
          /\ IF DebugOtp(settings)
               THEN /\ resp' = [Resp("send_otp", procs[p].phone, 200, "OTP_DEBUG_MODE")
                                  EXCEPT !.debug_otp = plaintext_otp]
                    /\ procs' = Done(p)
               ELSE /\ resp' = NoResp
                    /\ procs' = [procs EXCEPT ![p].pc = "so_sms", ![p].otp = row]
    /\ nextOtpId' = nextOtpId + 1
    /\ challenge' = [challenge EXCEPT ![procs[p].phone] =
                        [kind |-> "open", code |-> 0, wrong |-> 0]]
    /\ UNCHANGED <<now, settings, sessions, users, minted, nextJti, calls,
                   granted, revoked>>

\* send_otp, step 3: the awaited send_sms returns and a failure is recorded
\* through the row object this request still holds
CSendSms(p, sms) ==
    /\ procs[p].pc = "so_sms"
    /\ LET id == procs[p].otp.id
           present == \E r \in otps : r.id = id
       IN IF sms = "sent"
            THEN /\ resp' = Resp("send_otp", procs[p].phone, 200, "OTP_SENT_SUCCESSFULLY")
                 /\ otps' = otps
          ELSE IF ~present
            THEN /\ resp' = Resp("send_otp", procs[p].phone, 500, "StaleDataError")
                 /\ otps' = otps
          ELSE /\ otps' = set_otp_sending_error(otps, id)
               /\ resp' = IF sms = "exception"
                            THEN Resp("send_otp", procs[p].phone, 503, "SMS_SERVICE_UNAVAILABLE")
                            ELSE Resp("send_otp", procs[p].phone, 500, "OTP_SMS_SEND_FAILED")
    /\ procs' = Done(p)
    /\ UNCHANGED <<now, settings, sessions, users, minted, nextOtpId, nextJti,
                   calls, hist>>

\* verify_and_consume_otp, step 1: get_active_pending_otp_by_phone
CVerifyRead(p, phone_number, otp_code) ==
    /\ Free(p)
    /\ LET found == get_active_pending_otp_by_phone(otps, phone_number, now)
           R(status, msg) == Resp("verify_otp_and_grant_access", phone_number, status, msg)
       IN IF found = {}
            THEN /\ resp' = R(400, "VERIFY_NO_ACTIVE")
                 /\ procs' = procs
          ELSE IF Cardinality(found) > 1
            THEN /\ resp' = R(500, "MultipleResultsFound")
                 /\ procs' = procs
          ELSE /\ resp' = NoResp
               /\ procs' = [procs EXCEPT ![p].pc = "vo_commit",
                                         ![p].phone = phone_number,
                                         ![p].code = otp_code,
                                         ![p].otp = CHOOSE r \in found : TRUE]
    /\ UNCHANGED <<now, settings, otps, sessions, users, minted, nextOtpId,
                   nextJti, hist>>

\* verify_and_consume_otp, step 2: the branch on the loaded row and its commit
CVerifyCommit(p) ==
    /\ procs[p].pc = "vo_commit"
    /\ LET loaded == procs[p].otp
           b == VerifyBranch(loaded, procs[p].code, now)
           present == \E r \in otps : r.id = loaded.id
           R(status, msg) == Resp("verify_otp_and_grant_access", procs[p].phone, status, msg)
       IN IF ~present
            THEN /\ resp' = R(500, "StaleDataError")
                 /\ procs' = Done(p)
                 /\ UNCHANGED <<otps, challenge, granted>>
          ELSE /\ otps' = WriteOtp(otps, loaded, b.status, b.attempts_left)
               /\ challenge' = [challenge EXCEPT ![procs[p].phone] =
                                   ChallengeAfter(@, b, procs[p].code)]
               /\ IF b.success
                    THEN /\ granted' = [granted EXCEPT ![loaded.id] = @ + 1]
                         /\ resp' = NoResp
                         /\ procs' = Goto(p, "vo_grant")
                    ELSE /\ granted' = granted
                         /\ resp' = R(400, b.msg)
                         /\ procs' = Done(p)
    /\ UNCHANGED <<now, settings, sessions, users, minted, nextOtpId, nextJti,
                   calls, revoked>>

\* verify_otp_and_grant_access after a successful verification: the user is
\* found or created, the tokens minted, the session stored
CVerifyGrant(p) ==
    /\ procs[p].pc = "vo_grant"
    /\ LET phone_number == procs[p].phone
           found == get_by_phone_number(users, phone_number)
           table == IF is_new_user(found)
                      THEN create_user_for_otp_flow(users, NextUserId, phone_number)
                    ELSE users
           user == CHOOSE u \in get_by_phone_number(table, phone_number) : TRUE
           tok == create_refresh_token_with_jti(user.id, now, nextJti)
       IN IF LoginBlocked(found)
            THEN /\ resp' = [Resp("verify_otp_and_grant_access", phone_number, 403, "USER_INACTIVE")
                               EXCEPT !.otp_ok = TRUE]
                 /\ UNCHANGED <<users, sessions, minted, nextJti>>
          ELSE /\ nextJti <= MaxJti
               /\ users' = table
               /\ minted' = minted \cup {tok}
               /\ sessions' = create_user_session(sessions, user.id, nextJti,
                                   now + REFRESH_TOKEN_EXPIRE_DAYS)
               /\ nextJti' = nextJti + 1
               /\ resp' = [Resp("verify_otp_and_grant_access", phone_number, 500, "ValidationError")
                             EXCEPT !.otp_ok = TRUE, !.jti = nextJti, !.access = TRUE,
                                    !.is_new_user = is_new_user(found), !.returned = nextJti]
    /\ procs' = Done(p)
    /\ UNCHANGED <<now, settings, otps, nextOtpId, calls, hist>>

\* refresh_access_token, step 1: decode and active-session lookup
CRefreshLookup(p, tok) ==
    /\ Free(p)
    /\ LET found == get_active_session_by_jti_and_user(sessions, tok.jti, tok.sub, now)
           user_session == CHOOSE s \in found : TRUE
           R(status, msg) == Resp("refresh_access_token", tok.jti, status, msg)
       IN IF ~jwt_decode_refresh(tok, TRUE, now)
            THEN /\ resp' = R(401, "REFRESH_TOKEN_INVALID_OR_EXPIRED")
                 /\ procs' = procs
          ELSE IF tok.sub = 0 \/ tok.jti = 0 \/ tok.sub = -1
            THEN /\ resp' = R(401, "REFRESH_TOKEN_INVALID")
                 /\ procs' = procs
          ELSE IF found = {}
            THEN /\ resp' = R(401, "SESSION_NOT_FOUND_OR_REVOKED")
                 /\ procs' = procs
          ELSE /\ procs' = [procs EXCEPT ![p].pc = "rf_user",
                                         ![p].tok = tok,
                                         ![p].sess = user_session]
               /\ resp' = NoResp
    /\ UNCHANGED <<now, settings, otps, sessions, users, minted, nextOtpId,
                   nextJti, hist>>

\* refresh_access_token, step 2: the owner is loaded by id (BaseRepository.get
\* raises NoResultFound for a missing row, and nothing catches it); an
\* inactive owner gets the loaded session invalidated
CRefreshUser(p) ==
    /\ procs[p].pc = "rf_user"
    /\ LET tok == procs[p].tok
           user_session == procs[p].sess
           owner == {u \in users : u.id = user_session.user_id}
           R(status, msg) == Resp("refresh_access_token", tok.jti, status, msg)
       IN IF owner = {}
            THEN /\ resp' = R(500, "NoResultFound")
                 /\ procs' = Done(p)
                 /\ UNCHANGED <<sessions, revoked>>
          ELSE IF \E u \in owner : ~u.is_active
            THEN /\ sessions' = invalidate_session(sessions, tok.jti, now)
                 /\ revoked' = revoked \cup {<<tok.jti, "user_inactive", 0>>}
                 /\ resp' = R(401, "USER_INACTIVE_OR_NOT_FOUND")
                 /\ procs' = Done(p)
          ELSE IF RotationEnabled(settings)
            THEN /\ procs' = Goto(p, "rf_invalidate")
                 /\ resp' = NoResp
                 /\ UNCHANGED <<sessions, revoked>>
          ELSE /\ resp' = [R(500, "ValidationError")
                             EXCEPT !.access = TRUE, !.returned = tok.jti]
               /\ procs' = Done(p)
               /\ UNCHANGED <<sessions, revoked>>
    /\ UNCHANGED <<now, settings, otps, users, minted, nextOtpId, nextJti,
                   calls, challenge, granted>>

\* refresh_access_token, step 3 (rotation): invalidate_session on the loaded session
CRefreshInvalidate(p) ==
    /\ procs[p].pc = "rf_invalidate"
    /\ LET jti == procs[p].sess.refresh_token_jti IN
       IF get_session_by_jti(sessions, jti) = {}
         THEN /\ resp' = Resp("refresh_access_token", jti, 500, "StaleDataError")
              /\ procs' = Done(p)
              /\ sessions' = sessions
         ELSE /\ sessions' = invalidate_session(sessions, jti, now)
              /\ procs' = Goto(p, "rf_create")
              /\ resp' = NoResp
    /\ UNCHANGED <<now, settings, otps, users, minted, nextOtpId, nextJti,
                   calls, hist>>

\* refresh_access_token, step 4 (rotation): new refresh token and its session
CRefreshCreate(p) ==
    /\ procs[p].pc = "rf_create"
    /\ nextJti <= MaxJti
    /\ LET user_id == procs[p].sess.user_id
           new_tok == create_refresh_token_with_jti(user_id, now, nextJti)
       IN /\ minted' = minted \cup {new_tok}
          /\ sessions' = create_user_session(sessions, user_id, nextJti,
                              now + REFRESH_TOKEN_EXPIRE_DAYS)
          /\ revoked' = revoked \cup
                          {<<procs[p].sess.refresh_token_jti, "rotation", nextJti>>}
          /\ resp' = [Resp("refresh_access_token", procs[p].sess.refresh_token_jti,
                             500, "ValidationError")
                        EXCEPT !.jti = nextJti, !.access = TRUE, !.returned = nextJti]
    /\ nextJti' = nextJti + 1
    /\ procs' = Done(p)
    /\ UNCHANGED <<now, settings, otps, users, nextOtpId, calls, challenge, granted>>

\* the worker serving a request dies: what it committed stays, the rest is lost
Crash(p) ==
    /\ procs[p].pc # "idle"
    /\ resp' = Resp("crash", procs[p].sess.refresh_token_jti, 0, procs[p].pc)
    /\ procs' = Done(p)
    /\ UNCHANGED <<now, settings, otps, sessions, users, minted, nextOtpId,
                   nextJti, calls, hist>>

\* UserService.remove_user: one transaction, so it runs between any two
\* steps of the requests in flight
RemoveUser(user_id) ==
    /\ calls < MaxConcCalls
    /\ calls' = calls + 1
    /\ \E u \in users : u.id = user_id
    /\ users' = delete_user(users, user_id)
    /\ sessions' = delete_sessions_of(sessions, user_id)
    /\ resp' = Resp("remove_user", 0, 0, "")
    /\ UNCHANGED <<now, settings, otps, minted, nextOtpId, nextJti, procs, hist>>

NextConc ==
    \/ \E p \in Procs, ph \in Phones : CSendInvalidate(p, ph)
    \/ \E p \in Procs, c \in Codes : CSendCreate(p, c)
    \/ \E p \in Procs, sms \in SmsOutcomes : CSendSms(p, sms)
    \/ \E p \in Procs, ph \in Phones, c \in Codes : CVerifyRead(p, ph, c)
    \/ \E p \in Procs : CVerifyCommit(p)
    \/ \E p \in Procs : CVerifyGrant(p)
    \/ \E p \in Procs, tok \in minted : CRefreshLookup(p, tok)
    \/ \E p \in Procs : CRefreshUser(p)
    \/ \E u \in SubValues : RemoveUser(u)
    \/ \E p \in Procs : CRefreshInvalidate(p)
    \/ \E p \in Procs : CRefreshCreate(p)
    \/ \E p \in Procs : Crash(p)
    \/ Tick

SpecConc == Init /\ [][NextConc]_vars

\* ------------------------------------------------------------- properties
ActiveOtps(ph) == get_active_pending_otp_by_phone(otps, ph, now)

UsableSessions(jti) == {s \in sessions : s.refresh_token_jti = jti /\ Usable(s, now)}

\* C1: under calls that do not overlap (send_otp, verification,
\* set_otp_sending_error, cleanup, the clock advancing between them) a phone
\* number has at most one active PendingOTP row at every instant
C1_AtMostOneActiveOtp ==
    \A ph \in Phones : Cardinality(ActiveOtps(ph)) <= 1

\* a second send_otp has superseded a row that would otherwise still be active
C1_Witness ==
    \E r1 \in otps, r2 \in otps :
        /\ r1.phone_number = r2.phone_number
        /\ IsActiveOtp(r1, now)
        /\ r2.status = "EXPIRED"
        /\ r2.expires_at > now

\* C2: with two send_otp calls for one phone interleaved at the granularity
\* of their store calls, no two rows of that phone are active together
C2_NoTwoActiveInterleaved ==
    \A r1 \in otps, r2 \in otps :
        (r1.phone_number = r2.phone_number /\ IsActiveOtp(r1, now) /\ IsActiveOtp(r2, now))
            => r1 = r2

\* C3: a verification with the matching code on a fresh active row marks the
\* row VERIFIED with attempts_left 0 and succeeds; every later verification of
\* that phone with the same code, no send_otp in between, fails with "no
\* active OTP" and changes nothing
C3_VerifiedIsConsumed ==
    [][\A ph \in Phones, c \in Codes, d \in {0, 1} :
         VerifyOtpAndGrantAccess(ph, c, d) =>
           /\ \A r \in otps :
                (/\ r.phone_number = ph
                 /\ IsActiveOtp(r, now)
                 /\ r.expires_at > now + d
                 /\ verify_otp_value(c, r.hashed_otp))
                    => /\ resp'.otp_ok
                       /\ \E q \in otps' : /\ q.id = r.id
                                           /\ q.status = "VERIFIED"
                                           /\ q.attempts_left = 0
           /\ (challenge[ph].kind = "VERIFIED" /\ challenge[ph].code = c)
                    => /\ ~resp'.otp_ok
                       /\ resp'.msg = "VERIFY_NO_ACTIVE"
                       /\ otps' = otps]_vars

\* the code that was verified has been submitted again and was refused
C3_Witness ==
    /\ resp.op = "verify_otp_and_grant_access"
    /\ resp.msg = "VERIFY_NO_ACTIVE"
    /\ resp.subject \in Phones
    /\ challenge[resp.subject].kind = "VERIFIED"
    /\ \E r \in otps : /\ r.phone_number = resp.subject
                       /\ r.status = "VERIFIED"
                       /\ r.attempts_left = 0
                       /\ granted[r.id] = 1

\* C4: of two verifications with the matching code that run concurrently on
\* one active row at most one succeeds
C4_AtMostOneSuccess ==
    \A i \in 1..MaxOtpRows : granted[i] <= 1

\* C5: the max_attempts-th wrong code submitted against a row leaves it
\* MAX_ATTEMPTS with attempts_left 0, and from then on every verification of
\* that phone, the matching code included, fails until a new send_otp
C5_ExhaustedStaysExhausted ==
    [][\A ph \in Phones, c \in Codes, d \in {0, 1} :
         VerifyOtpAndGrantAccess(ph, c, d) =>
           /\ (challenge[ph].wrong < MAX_OTP_ATTEMPTS
                 /\ challenge'[ph].wrong = MAX_OTP_ATTEMPTS)
                    => /\ resp'.msg = "MAX_ATTEMPTS_REACHED"
                       /\ \A r \in ActiveOtps(ph) :
                            \E q \in otps' : /\ q.id = r.id
                                             /\ q.status = "MAX_ATTEMPTS"
                                             /\ q.attempts_left = 0
           /\ challenge[ph].wrong <= MAX_OTP_ATTEMPTS
           /\ challenge[ph].kind = "MAX_ATTEMPTS"
                    => /\ ~resp'.otp_ok
                       /\ resp'.status = 400
                       /\ otps' = otps]_vars

\* a verification was refused on a phone whose row is exhausted
C5_Witness ==
    /\ resp.op = "verify_otp_and_grant_access"
    /\ resp.msg = "VERIFY_NO_ACTIVE"
    /\ resp.subject \in Phones
    /\ challenge[resp.subject].kind = "MAX_ATTEMPTS"
    /\ challenge[resp.subject].wrong = MAX_OTP_ATTEMPTS
    /\ \E r \in otps : /\ r.phone_number = resp.subject
                       /\ r.status = "MAX_ATTEMPTS"
                       /\ r.attempts_left = 0

\* C6: a refresh whose token is validly signed and unexpired but has no
\* active session (absent, inactive or past its expires_at) is answered 401,
\* mints no token and creates no session
C6_NoSessionNoRefresh ==
    [][\A tok \in PresentedTokens :
         (/\ RefreshAccessToken(tok)
          /\ jwt_decode_refresh(tok, TRUE, now)
          /\ ~\E s \in UsableSessions(tok.jti) : s.user_id = tok.sub)
            => /\ resp'.status = 401
               /\ ~resp'.access
               /\ resp'.jti = 0
               /\ minted' = minted
               /\ sessions' = sessions]_vars

\* an unexpired token whose session was ended by logout was refused
C6_Witness ==
    /\ resp.op = "refresh_access_token"
    /\ resp.status = 401
    /\ resp.msg = "SESSION_NOT_FOUND_OR_REVOKED"
    /\ \E tok \in minted : tok.jti = resp.subject /\ tok.exp >= now
    /\ <<resp.subject, "logout", 0>> \in revoked

\* C7: with rotation on, once a refresh with token T has rotated it, every
\* later refresh with T is answered 401
C7_RotatedTokenRefused ==
    [][\A tok \in PresentedTokens :
         (/\ RefreshAccessToken(tok)
          /\ settings.ROTATE_REFRESH_TOKENS
          /\ \E r \in revoked : r[1] = tok.jti /\ r[2] = "rotation")
            => /\ resp'.status = 401
               /\ minted' = minted
               /\ sessions' = sessions]_vars

\* a rotated token was presented again, while its successor's session is
\* usable, and was refused
C7_Witness ==
    /\ settings.ROTATE_REFRESH_TOKENS
    /\ resp.op = "refresh_access_token"
    /\ resp.status = 401
    /\ \E r \in revoked : /\ r[1] = resp.subject
                          /\ r[2] = "rotation"
                          /\ UsableSessions(r[3]) # {}

\* C8: in a rotation the old session is invalidated before the new one is
\* created: in every state in between, after a crash included, the old
\* session and its successor are never both usable, and a crash between the
\* two steps leaves the old one unusable
C8_InvalidateBeforeCreate ==
    /\ \A r \in revoked :
         (r[2] = "rotation" /\ get_session_by_jti(sessions, r[3]) # {})
            => UsableSessions(r[1]) = {}
    /\ \A p \in Procs :
         procs[p].pc = "rf_create"
            => UsableSessions(procs[p].sess.refresh_token_jti) = {}
    /\ (resp.op = "crash" /\ resp.msg = "rf_create")
            => UsableSessions(resp.subject) = {}

\* a rotation died between its two steps: the old session is there, unusable
C8_Witness ==
    /\ resp.op = "crash"
    /\ resp.msg = "rf_create"
    /\ \E s \in sessions : s.refresh_token_jti = resp.subject /\ ~s.is_active
    /\ \A r \in revoked : r[1] # resp.subject

\* C9: a logout whose well-formed, validly signed refresh token names another
\* user than the caller is answered 403 and changes no session
C9_LogoutOtherUserForbidden ==
    [][\A u \in SubValues, tok \in PresentedTokens :
         (/\ LogoutUser(u, tok)
          /\ jwt_decode_refresh(tok, FALSE, now)
          /\ tok.jti # 0
          /\ tok.sub \in SubValues
          /\ tok.sub # u)
            => /\ resp'.status = 403
               /\ sessions' = sessions]_vars

\* a logout aimed at another user's usable session was refused
C9_Witness ==
    /\ resp.op = "logout_user"
    /\ resp.status = 403
    /\ UsableSessions(resp.subject) # {}

\* C10: logout never fails on an expired or malformed token: a token that
\* does not decode, lacks jti or sub, or has a non-integer sub gives the
\* success answer with the session store unchanged; an expired, validly
\* signed token of the caller gives the success answer and changes at most
\* the session of that jti
C10_LogoutNeverRaises ==
    [][\A u \in SubValues, tok \in PresentedTokens :
         LogoutUser(u, tok) =>
           /\ (tok.sig # "refresh" \/ tok.jti = 0 \/ tok.sub = 0 \/ tok.sub = -1)
                => /\ resp'.status = 204
                   /\ sessions' = sessions
           /\ (/\ tok.sig = "refresh"
               /\ tok.exp < now
               /\ tok.jti # 0
               /\ tok.sub = u)
                => /\ resp'.status = 204
                   /\ {s \in sessions' : s.refresh_token_jti # tok.jti}
                        = {s \in sessions : s.refresh_token_jti # tok.jti}]_vars

\* the caller logged out with their own expired token and its session ended
C10_Witness ==
    /\ resp.op = "logout_user"
    /\ resp.status = 204
    /\ resp.msg = "LOGOUT_SESSION_INVALIDATED"
    /\ \E tok \in minted : tok.jti = resp.subject /\ tok.exp < now
    /\ <<resp.subject, "logout", 0>> \in revoked

\* C11: once the caller has logged out with their refresh token T while T's
\* session was active, every later refresh with T is answered 401 and mints
\* nothing, with rotation on or off
C11_LoggedOutTokenRefused ==
    [][\A tok \in PresentedTokens :
         (/\ RefreshAccessToken(tok)
          /\ <<tok.jti, "logout", 0>> \in revoked)
            => /\ resp'.status = 401
               /\ ~resp'.access
               /\ minted' = minted
               /\ sessions' = sessions]_vars

\* with rotation off, the owner still active and the token unexpired, a
\* refresh after logout was refused
C11_Witness ==
    /\ ~settings.ROTATE_REFRESH_TOKENS
    /\ resp.op = "refresh_access_token"
    /\ resp.status = 401
    /\ <<resp.subject, "logout", 0>> \in revoked
    /\ \E tok \in minted :
         /\ tok.jti = resp.subject
         /\ tok.exp >= now
         /\ \E u \in users : u.id = tok.sub /\ u.is_active

\* C12: a refresh with a valid token and an active session whose owner is
\* inactive is answered 401, mints no token and leaves that session inactive;
\* no later refresh with that token succeeds, the owner reactivated or not
C12_InactiveOwnerEndsSession ==
    [][\A tok \in BearerTokens :
         RefreshAccessToken(tok) =>
           /\ (/\ jwt_decode_refresh(tok, TRUE, now)
               /\ \E s \in UsableSessions(tok.jti) : s.user_id = tok.sub
               /\ \E u \in users : u.id = tok.sub /\ ~u.is_active)
                => /\ resp'.status = 401
                   /\ ~resp'.access
                   /\ minted' = minted
                   /\ get_session_by_jti(sessions', tok.jti) # {}
                   /\ \A s \in get_session_by_jti(sessions', tok.jti) : ~s.is_active
                   /\ {s \in sessions' : s.refresh_token_jti # tok.jti}
                        = {s \in sessions : s.refresh_token_jti # tok.jti}
           /\ <<tok.jti, "user_inactive", 0>> \in revoked
                => /\ resp'.status = 401
                   /\ ~resp'.access
                   /\ minted' = minted
                   /\ sessions' = sessions]_vars

\* the owner was reactivated and the token, still unexpired, was refused
C12_Witness ==
    /\ resp.op = "refresh_access_token"
    /\ resp.status = 401
    /\ <<resp.subject, "user_inactive", 0>> \in revoked
    /\ \E tok \in minted :
         /\ tok.jti = resp.subject
         /\ tok.exp >= now
         /\ \E u \in users : u.id = tok.sub /\ u.is_active

\* C13: a refresh that found its active session and then finds no user row
\* for the session's owner is answered 401 and leaves no usable session for
\* that token
C13_MissingOwnerAnswered401 ==
    [][\A p \in Procs :
         (/\ CRefreshUser(p)
          /\ ~\E u \in users : u.id = procs[p].sess.user_id)
            => /\ resp'.status = 401
               /\ get_active_session_by_jti_and_user(
                      sessions', procs[p].tok.jti, procs[p].tok.sub, now) = {}]_vars

\* C14: when the SMS transport raises or reports failure, the row made by that
\* send_otp ends ERROR_SENDING with no attempts left, the caller gets 503
\* (exception) or 500 (failure), no active OTP is left for the phone, and the
\* row never leaves ERROR_SENDING afterwards
C14_SmsFailureKillsOtp ==
    [][/\ \A phone_number \in Phones, plaintext_otp \in Codes,
            sms \in SmsOutcomes \ {"sent"} :
            (SendOtp(phone_number, plaintext_otp, sms) /\ ~DebugOtp(settings))
              => /\ \E r \in otps' :
                      /\ r.id = nextOtpId
                      /\ r.phone_number = phone_number
                      /\ r.hashed_otp = hash_otp_value(plaintext_otp)
                      /\ r.status = "ERROR_SENDING"
                      /\ r.attempts_left = 0
                 /\ resp'.status = (IF sms = "exception" THEN 503 ELSE 500)
                 /\ resp'.debug_otp = 0
                 /\ get_active_pending_otp_by_phone(otps', phone_number, now) = {}
                 /\ \A t \in now..MaxTime, c \in Codes :
                      ~verify_and_consume_otp(otps', phone_number, c, t, t).success
       /\ \A r \in otps : r.status = "ERROR_SENDING"
            => \A r2 \in otps' : r2.id = r.id => r2 = r]_vars

\* a send whose SMS transport raised: 503, and the new row is dead
C14_Witness ==
    /\ resp.op = "send_otp"
    /\ resp.status = 503
    /\ \E r \in otps :
         /\ r.id = nextOtpId - 1
         /\ r.phone_number = resp.subject
         /\ r.status = "ERROR_SENDING"
         /\ r.expires_at >= now

\* C15: the two kinds of token are kept apart by their signing secrets: an
\* access token given to refresh_access_token is answered 401 at the decode
\* and changes nothing, given to logout_user it counts as undecodable; a
\* refresh token given to get_current_user is answered 401
C15_TokenKindsIsolated ==
    [][/\ \A tok \in MintedAccessTokens :
            RefreshAccessToken(tok)
              => /\ resp'.status = 401
                 /\ resp'.msg = "REFRESH_TOKEN_INVALID_OR_EXPIRED"
                 /\ ~resp'.access
                 /\ UNCHANGED <<otps, sessions, users, minted, nextJti, hist>>
       /\ \A current_user_id \in SubValues, tok \in MintedAccessTokens :
            LogoutUser(current_user_id, tok)
              => /\ resp'.status = 204
                 /\ resp'.msg = "LOGOUT_INVALID_EXPIRED_TOKEN"
                 /\ UNCHANGED <<otps, sessions, users, minted, nextJti, hist>>
       /\ \A tok \in minted :
            CurrentUser(tok) => resp'.status = 401]_vars

\* an unexpired refresh token of an active user with a usable session was
\* presented as a bearer token and refused
C15_Witness ==
    /\ resp.op = "get_current_user"
    /\ resp.status = 401
    /\ \E tok \in minted :
         /\ tok.jti = resp.subject
         /\ tok.exp >= now
         /\ \E s \in UsableSessions(tok.jti) : s.user_id = tok.sub
         /\ \E u \in users : u.id = tok.sub /\ u.is_active

\* C16: the result of send_otp carries the plaintext code exactly when the
\* environment is dev and DEBUG_OTP_IN_RESPONSE is set; under every other
\* configuration a successful send_otp returns the same generic confirmation
\* for every code, and a failed one carries no code either
C16_CodeOnlyInDevDebug ==
    [][\A phone_number \in Phones, plaintext_otp \in Codes, sms \in SmsOutcomes :
         SendOtp(phone_number, plaintext_otp, sms)
           => /\ (resp'.debug_otp # 0)
                   <=> (settings.APP_ENV = "dev" /\ settings.DEBUG_OTP_IN_RESPONSE)
              /\ resp'.debug_otp \in {0, plaintext_otp}
              /\ (resp'.debug_otp = 0 /\ resp'.status = 200)
                   => resp' = Resp("send_otp", phone_number, 200,
                                   "OTP_SENT_SUCCESSFULLY")]_vars

\* production with DEBUG_OTP_IN_RESPONSE set: the code was sent, stored and
\* not returned
C16_Witness ==
    /\ settings.APP_ENV = "prod"
    /\ settings.DEBUG_OTP_IN_RESPONSE
    /\ resp.op = "send_otp"
    /\ resp.status = 200
    /\ resp.debug_otp = 0
    /\ get_active_pending_otp_by_phone(otps, resp.subject, now) # {}

\* C17: a verify_otp_and_grant_access or refresh_access_token call that got
\* as far as making its access token (OTP accepted for a new or active user;
\* session and owner checks passed) ends by returning its Token result: it is
\* answered 200, not with an error after the session row was written
C17_GrantedCallsReturnToken ==
    (/\ resp.op \in {"verify_otp_and_grant_access", "refresh_access_token"}
     /\ resp.access)
       => resp.status = 200

\* C18: verify_otp_and_grant_access makes a user only when no user has the
\* phone number, then exactly one, under an id not in use; the is_new_user it
\* hands to its Token result is true exactly when it made the user; no two
\* users ever share a phone number
C18_UserCreatedOnlyWhenMissing ==
    [][\A phone_number \in Phones, otp_code \in Codes, d \in {0, 1} :
         VerifyOtpAndGrantAccess(phone_number, otp_code, d)
           => LET before == get_by_phone_number(users, phone_number)
                  made == users' \ users
              IN /\ users \subseteq users'
                 /\ made # {} => /\ before = {}
                                 /\ Cardinality(made) = 1
                                 /\ \A u \in made :
                                      /\ u.phone_number = phone_number
                                      /\ \A o \in users : o.id # u.id
                 /\ resp'.is_new_user <=> made # {}
                 /\ resp'.access => (resp'.is_new_user <=> before = {})
                 /\ \A u1, u2 \in users' :
                      u1.phone_number = u2.phone_number => u1 = u2]_vars

\* a second login of a phone: the user of the first login is reused and
\* is_new_user is false
C18_Witness ==
    /\ resp.op = "verify_otp_and_grant_access"
    /\ resp.access
    /\ ~resp.is_new_user
    /\ Cardinality(get_by_phone_number(users, resp.subject)) = 1
    /\ Cardinality({tok \in minted :
                      \E u \in get_by_phone_number(users, resp.subject) :
                          tok.sub = u.id}) = 2

\* C19: verify_otp_and_grant_access with the correct code for a phone whose
\* user is inactive is answered 403, mints no token and creates no session
C19_InactiveUserLoginRefused ==
    [][\A phone_number \in Phones, otp_code \in Codes, d \in {0, 1} :
         (/\ VerifyOtpAndGrantAccess(phone_number, otp_code, d)
          /\ verify_and_consume_otp(otps, phone_number, otp_code, now, now + d).success
          /\ \E u \in get_by_phone_number(users, phone_number) : ~u.is_active)
            => /\ resp'.status = 403
               /\ ~resp'.access
               /\ resp'.jti = 0
               /\ minted' = minted
               /\ sessions' = sessions
               /\ users' = users]_vars

\* the code was accepted and the login of the inactive user refused
C19_Witness ==
    /\ resp.op = "verify_otp_and_grant_access"
    /\ resp.status = 403
    /\ resp.otp_ok
    /\ \E u \in get_by_phone_number(users, resp.subject) : ~u.is_active
    /\ \E r \in otps : r.phone_number = resp.subject /\ r.status = "VERIFIED"

\* C20: with ROTATE_REFRESH_TOKENS off, a refresh that passes the decode, the
\* session lookup and the owner check issues an access token, gives back the
\* presented refresh token and leaves the session store as it was: the
\* presented session still active with the same expires_at, no session made
C20_NoRotationKeepsSession ==
    [][\A tok \in PresentedTokens :
         (/\ RefreshAccessToken(tok)
          /\ ~settings.ROTATE_REFRESH_TOKENS
          /\ jwt_decode_refresh(tok, TRUE, now)
          /\ get_active_session_by_jti_and_user(sessions, tok.jti, tok.sub, now) # {}
          /\ \E u \in users : u.id = tok.sub /\ u.is_active)
            => /\ resp'.access
               /\ resp'.returned = tok.jti
               /\ resp'.jti = 0
               /\ sessions' = sessions
               /\ minted' = minted
               /\ nextJti' = nextJti
               /\ get_active_session_by_jti_and_user(sessions', tok.jti, tok.sub, now)
                    = get_active_session_by_jti_and_user(sessions, tok.jti, tok.sub, now)]_vars

\* a refresh without rotation went through and the presented session is
\* still usable
C20_Witness ==
    /\ ~settings.ROTATE_REFRESH_TOKENS
    /\ resp.op = "refresh_access_token"
    /\ resp.access
    /\ resp.returned = resp.subject
    /\ UsableSessions(resp.subject) # {}
    /\ Cardinality(sessions) = 1

\* C21: invalidating a session that is already inactive changes nothing, by
\* invalidate_session as by invalidate_session_by_jti: the record keeps its
\* is_active and its expires_at
C21_InvalidateInactiveIsNoOp ==
    [][\A jti \in 1..MaxJti :
         (/\ InvalidateSession(jti) \/ InvalidateSessionByJti(jti)
          /\ \E s \in get_session_by_jti(sessions, jti) : ~s.is_active)
            => sessions' = sessions]_vars

\* C22: logout_user with a refresh token of the caller always answers 204;
\* when the token's session is already inactive (an earlier logout) or there
\* is no session for its jti, the session store is left exactly as it was
C22_LogoutIdempotent ==
    [][\A current_user_id \in SubValues, tok \in minted :
         (LogoutUser(current_user_id, tok) /\ tok.sub = current_user_id)
           => /\ resp'.status = 204
              /\ (\A s \in get_session_by_jti(sessions, tok.jti) : ~s.is_active)
                   => sessions' = sessions
              /\ \A s \in get_session_by_jti(sessions', tok.jti) : ~s.is_active]_vars

\* a second logout with the same token, later than the first: answered 204,
\* the session still as the first logout left it
C22_Witness ==
    /\ resp.op = "logout_user"
    /\ resp.status = 204
    /\ <<resp.subject, "logout", 0>> \in revoked
    /\ \E tok \in minted : tok.jti = resp.subject /\ tok.exp >= now
    /\ \E s \in get_session_by_jti(sessions, resp.subject) :
         ~s.is_active /\ s.expires_at < now

\* logout with a token whose jti has no session at all
C22_WitnessNoSession ==
    /\ resp.op = "logout_user"
    /\ resp.status = 204
    /\ resp.msg = "LOGOUT_NO_ACTIVE_SESSION_FOR_JTI"

\* C23: a verification for a phone whose PENDING row has run out
\* (expires_at <= now, attempts left) marks that row EXPIRED with
\* attempts_left 0 and fails with the expired reason
C23_ExpiredRowMarkedExpired ==
    [][\A phone_number \in Phones, otp_code \in Codes, d \in {0, 1} :
         VerifyOtpAndGrantAccess(phone_number, otp_code, d)
           => \A r \in otps :
                (/\ r.phone_number = phone_number
                 /\ r.status = "PENDING"
                 /\ r.expires_at <= now
                 /\ r.attempts_left > 0)
                  => /\ resp'.msg = "EXPIRED_DURING_VERIFICATION"
                     /\ \E r2 \in otps' : /\ r2.id = r.id
                                           /\ r2.status = "EXPIRED"
                                           /\ r2.attempts_left = 0]_vars

\* C24: invalidate_existing_pending_otps(phone) sets every PENDING row of the
\* phone to EXPIRED with attempts_left 0, leaves every row of another phone
\* and every row that is not PENDING as it was, returns the number of rows it
\* changed, and a second call right after changes nothing and returns 0
C24_InvalidateExistingFramed ==
    [][\A phone_number \in Phones :
         InvalidateExistingPendingOtps(phone_number)
           => /\ Cardinality(otps') = Cardinality(otps)
              /\ \A r \in otps :
                   IF r.phone_number = phone_number /\ r.status = "PENDING"
                     THEN [r EXCEPT !.status = "EXPIRED", !.attempts_left = 0] \in otps'
                     ELSE r \in otps'
              /\ resp'.returned =
                   Cardinality({r \in otps : r \notin otps'})
              /\ invalidate_existing_pending_otps(otps', phone_number) = otps'
              /\ invalidate_existing_rowcount(otps', phone_number) = 0]_vars

\* two PENDING rows of one phone were invalidated by one call
C24_Witness ==
    /\ resp.op = "invalidate_existing_pending_otps"
    /\ resp.returned = 2
    /\ \A r \in otps : r.phone_number = resp.subject => r.status = "EXPIRED"

\* a call changed the row of its phone and left the PENDING row of the other
C24_WitnessOtherPhone ==
    /\ resp.op = "invalidate_existing_pending_otps"
    /\ resp.returned = 1
    /\ \E r \in otps : r.phone_number # resp.subject /\ r.status = "PENDING"

\* C25: cleanup_revoked_and_expired_sessions deletes no usable session
\* (is_active and expires_at > now), adds and changes none, and every session
\* it leaves that is not usable has expires_at equal to now
C25_CleanupKeepsUsable ==
    [][CleanupSessions
         => /\ sessions' \subseteq sessions
            /\ \A s \in sessions : Usable(s, now) => s \in sessions'
            /\ \A s \in sessions' : ~Usable(s, now) => s.expires_at = now]_vars

\* cleanup ran, deleted a session and left one that expires at this instant:
\* active, not usable, not deleted
C25_Witness ==
    /\ resp.op = "cleanup_revoked_and_expired_sessions"
    /\ \E s \in sessions : s.is_active /\ s.expires_at = now
    /\ \E tok \in minted : get_session_by_jti(sessions, tok.jti) = {}

\* the usable sessions made by rotating the token with this jti
Successors(jti) ==
    {rec[3] : rec \in {r \in revoked : r[1] = jti /\ r[2] = "rotation"
                                       /\ UsableSessions(r[3]) # {}}}

\* C26: with rotation on, refreshes of one token that overlap between the
\* session lookup and the invalidation commit do not both go through: one
\* refresh token never has two usable successor sessions
C26_OneSuccessorPerToken ==
    \A jti \in 1..MaxJti : Cardinality(Successors(jti)) <= 1

\* code comparisons accepted so far against a row that is the only row its
\* phone ever had (rows are not deleted while requests overlap): the wrong
\* ones counted since the send that made it, and the successful ones
Comparisons(r) == challenge[r.phone_number].wrong + granted[r.id]

\* C27: a row created with MAX_OTP_ATTEMPTS attempts has at most that many
\* code comparisons accepted against it, right or wrong, also when
\* verifications of its phone overlap between reading attempts_left and
\* committing the decremented value
C27_AttemptsBounded ==
    \A r \in otps :
       (\A o \in otps : o.phone_number = r.phone_number => o = r)
         => Comparisons(r) <= MAX_OTP_ATTEMPTS

\* C28: once a later send_otp of a phone has made its row, the code of an
\* earlier send_otp of that phone is never verified: send_otp leaves no other
\* row of the phone PENDING, a row that left PENDING never changes again, and
\* the only row that can become VERIFIED is the newest row of its phone, by
\* the code stored in it
C28_OnlyLatestChallengeVerifies ==
    [][/\ \A phone_number \in Phones, plaintext_otp \in Codes, sms \in SmsOutcomes :
            SendOtp(phone_number, plaintext_otp, sms)
              => \A r \in otps' :
                   (r.phone_number = phone_number /\ r.id # nextOtpId)
                     => r.status # "PENDING"
       /\ \A r \in otps, r2 \in otps' :
            r2.id = r.id
              => /\ r.status # "PENDING" => r2 = r
                 /\ (r.status = "PENDING" /\ r2.status = "VERIFIED")
                      => \A o \in otps : o.phone_number = r.phone_number => o.id <= r.id
       /\ \A phone_number \in Phones, otp_code \in Codes, d \in {0, 1} :
            (VerifyOtpAndGrantAccess(phone_number, otp_code, d) /\ resp'.otp_ok)
              => \E r \in otps :
                   /\ r.phone_number = phone_number
                   /\ \A o \in otps : o.phone_number = phone_number => o.id <= r.id
                   /\ r.hashed_otp = hash_otp_value(otp_code)
                   /\ \E r2 \in otps' : r2.id = r.id /\ r2.status = "VERIFIED"]_vars

\* two sends of one phone with different codes, then the earlier code was
\* submitted: refused as a wrong attempt on the newer row
C28_Witness ==
    /\ resp.op = "verify_otp_and_grant_access"
    /\ resp.msg = "INVALID_ATTEMPT"
    /\ \E r1, r2 \in otps :
         /\ r1.phone_number = resp.subject
         /\ r2.phone_number = resp.subject
         /\ r1.id < r2.id
         /\ r1.hashed_otp # r2.hashed_otp
         /\ r1.status = "EXPIRED"
         /\ r1.expires_at > now
         /\ r2.status = "PENDING"
         /\ r2.attempts_left = MAX_OTP_ATTEMPTS - 1

\* the usable sessions of a user in a session table at a time
UsableOf(tbl, user_id, t) == {s \in tbl : s.user_id = user_id /\ Usable(s, t)}

\* C29: with ROTATE_REFRESH_TOKENS on, a refresh that passes the decode, the
\* session lookup and the owner check leaves the presented session inactive
\* and makes exactly one new active session, of the same user, under the jti
\* of the refresh token it gives back; every other session is untouched and
\* the user has as many usable sessions after the call as before
C29_RotationReplacesSession ==
    [][\A tok \in PresentedTokens :
         (/\ RefreshAccessToken(tok)
          /\ settings.ROTATE_REFRESH_TOKENS
          /\ jwt_decode_refresh(tok, TRUE, now)
          /\ get_active_session_by_jti_and_user(sessions, tok.jti, tok.sub, now) # {}
          /\ \E u \in users : u.id = tok.sub /\ u.is_active)
            => /\ resp'.access
               /\ resp'.returned = nextJti
               /\ get_session_by_jti(sessions, nextJti) = {}
               /\ get_session_by_jti(sessions', tok.jti) # {}
               /\ \A s \in get_session_by_jti(sessions', tok.jti) : ~s.is_active
               /\ get_session_by_jti(sessions', nextJti) =
                    {[user_id |-> tok.sub, refresh_token_jti |-> nextJti,
                      expires_at |-> now + REFRESH_TOKEN_EXPIRE_DAYS,
                      is_active |-> TRUE]}
               /\ {s \in sessions' : s.refresh_token_jti \notin {tok.jti, nextJti}}
                    = {s \in sessions : s.refresh_token_jti # tok.jti}
               /\ minted' \ minted =
                    {create_refresh_token_with_jti(tok.sub, now, nextJti)}
               /\ Cardinality(UsableOf(sessions', tok.sub, now))
                    = Cardinality(UsableOf(sessions, tok.sub, now))]_vars

\* a rotation happened for a user who holds a second usable session: the
\* presented session is inactive, its successor usable
C29_Witness ==
    /\ settings.ROTATE_REFRESH_TOKENS
    /\ resp.op = "refresh_access_token"
    /\ resp.access
    /\ resp.returned # resp.subject
    /\ \E s \in get_session_by_jti(sessions, resp.subject) : ~s.is_active
    /\ \E s \in UsableSessions(resp.returned) :
         Cardinality(UsableOf(sessions, s.user_id, now)) = 2

\* C30: a verify_otp_and_grant_access whose code is accepted for a new or
\* active user makes exactly one new session: active, of the user logged in,
\* under the jti of the refresh token it gives back, expiring at now plus the
\* refresh lifetime; no other session changes
C30_LoginCreatesOneSession ==
    [][\A phone_number \in Phones, otp_code \in Codes, d \in {0, 1} :
         (/\ VerifyOtpAndGrantAccess(phone_number, otp_code, d)
          /\ verify_and_consume_otp(otps, phone_number, otp_code, now, now + d).success
          /\ \A u \in get_by_phone_number(users, phone_number) : u.is_active)
            => /\ resp'.access
               /\ resp'.returned = nextJti
               /\ sessions \subseteq sessions'
               /\ \E u \in get_by_phone_number(users', phone_number) :
                    /\ sessions' \ sessions =
                         {[user_id |-> u.id, refresh_token_jti |-> nextJti,
                           expires_at |-> now' + REFRESH_TOKEN_EXPIRE_DAYS,
                           is_active |-> TRUE]}
                    /\ minted' \ minted =
                         {create_refresh_token_with_jti(u.id, now', nextJti)}]_vars

\* a second login of a user: the new session is there, usable, next to the
\* session of the first login
C30_Witness ==
    /\ resp.op = "verify_otp_and_grant_access"
    /\ resp.access
    /\ \E s \in UsableSessions(resp.returned) :
         /\ s.expires_at = now + REFRESH_TOKEN_EXPIRE_DAYS
         /\ \E u \in get_by_phone_number(users, resp.subject) : u.id = s.user_id
         /\ \E o \in sessions : o.user_id = s.user_id /\ o # s

C32_OnlyPresentedSessionChanges ==
    [][/\ \A tok \in PresentedTokens :
            RefreshAccessToken(tok)
              => /\ {s \in sessions : s.refresh_token_jti # tok.jti} \subseteq sessions'
                 /\ \A s \in sessions' :
                      \/ s.refresh_token_jti = tok.jti
                      \/ s \in sessions
                      \/ /\ settings.ROTATE_REFRESH_TOKENS
                         /\ s.refresh_token_jti = nextJti
                         /\ get_session_by_jti(sessions, nextJti) = {}
       /\ \A current_user_id \in SubValues, tok \in PresentedTokens :
            LogoutUser(current_user_id, tok)
              => /\ {s \in sessions : s.refresh_token_jti # tok.jti} \subseteq sessions'
                 /\ \A s \in sessions' :
                      s.refresh_token_jti = tok.jti \/ s \in sessions]_vars

\* a user with two sessions logged one out: the other is still usable
C32_Witness ==
    /\ resp.op = "logout_user"
    /\ resp.msg = "LOGOUT_SESSION_INVALIDATED"
    /\ \E s \in get_session_by_jti(sessions, resp.subject) :
         /\ ~s.is_active
         /\ \E o \in sessions : /\ o.user_id = s.user_id
                                 /\ o.refresh_token_jti # s.refresh_token_jti
                                 /\ Usable(o, now)

\* C33: while the row of the latest send_otp of a phone is PENDING, fewer than
\* MAX_OTP_ATTEMPTS wrong codes were submitted against it and its expiry is
\* not reached, the code stored in it is accepted and the row becomes
\* VERIFIED; a wrong code that is not the last allowed one takes exactly one
\* from attempts_left and leaves the row PENDING
C33_CorrectCodeAfterWrongOnes ==
    [][\A phone_number \in Phones, otp_code \in Codes, d \in {0, 1} :
         VerifyOtpAndGrantAccess(phone_number, otp_code, d)
           => \A r \in otps :
                (/\ r.phone_number = phone_number
                 /\ r.status = "PENDING"
                 /\ challenge[phone_number].wrong < MAX_OTP_ATTEMPTS
                 /\ now + d < r.expires_at)
                  => /\ r.attempts_left = MAX_OTP_ATTEMPTS - challenge[phone_number].wrong
                     /\ verify_otp_value(otp_code, r.hashed_otp)
                          => /\ resp'.otp_ok
                             /\ [r EXCEPT !.status = "VERIFIED", !.attempts_left = 0] \in otps'
                     /\ (/\ ~verify_otp_value(otp_code, r.hashed_otp)
                         /\ challenge[phone_number].wrong + 1 < MAX_OTP_ATTEMPTS)
                          => /\ resp'.msg = "INVALID_ATTEMPT"
                             /\ [r EXCEPT !.attempts_left = r.attempts_left - 1] \in otps'
                             /\ challenge'[phone_number].wrong = challenge[phone_number].wrong + 1]_vars

\* one wrong code was refused and then the stored code was accepted
C33_Witness ==
    /\ resp.op = "verify_otp_and_grant_access"
    /\ resp.otp_ok
    /\ challenge[resp.subject].kind = "VERIFIED"
    /\ challenge[resp.subject].wrong = MAX_OTP_ATTEMPTS - 1
    /\ \E r \in otps : /\ r.phone_number = resp.subject
                        /\ r.status = "VERIFIED"
                        /\ granted[r.id] = 1

\* C34: a row whose status is no longer PENDING keeps that status in every
\* step, whichever way send_otp, verification and the recording of an SMS
\* failure interleave
C34_TerminalStatusAbsorbing ==
    [][\A r \in otps, r2 \in otps' :
         (r2.id = r.id /\ r.status # "PENDING") => r2.status = r.status]_vars

\* C34, the case singled out: a row already VERIFIED or EXPIRED is not
\* rewritten to ERROR_SENDING
C34_NoErrorSendingOverTerminal ==
    [][\A r \in otps, r2 \in otps' :
         (r2.id = r.id /\ r.status \in {"VERIFIED", "EXPIRED"})
           => r2.status # "ERROR_SENDING"]_vars

\* C35: in every state every PendingOTP row has attempts_left between 0 and
\* the MAX_OTP_ATTEMPTS it was created with, and attempts_left is 0 exactly
\* when the status is not PENDING
C35_AttemptsLeftInRange ==
    \A r \in otps :
       /\ 0 <= r.attempts_left
       /\ r.attempts_left <= MAX_OTP_ATTEMPTS
       /\ (r.attempts_left = 0) <=> (r.status # "PENDING")

\* C35: no step raises the attempts_left of a row
C35_AttemptsLeftNeverIncreases ==
    [][\A r \in otps, r2 \in otps' :
         r2.id = r.id => r2.attempts_left <= r.attempts_left]_vars

\* C35, both parts as one property of every behaviour
C35_AttemptsLeftInvariant ==
    [](C35_AttemptsLeftInRange) /\ C35_AttemptsLeftNeverIncreases

\* C36: no step sets is_active back to true on a session that was inactive,
\* and no step moves the expires_at of a session to a later time
C36_RevocationMonotonic ==
    [][\A s \in sessions, s2 \in sessions' :
         s2.refresh_token_jti = s.refresh_token_jti
           => /\ s2.is_active => s.is_active
              /\ s2.expires_at <= s.expires_at]_vars

\* C36, the consequence: a session that is not usable is not usable after
\* any step either
C36_UnusableStaysUnusable ==
    [][\A s \in sessions, s2 \in sessions' :
         (s2.refresh_token_jti = s.refresh_token_jti /\ ~Usable(s, now))
           => ~Usable(s2, now')]_vars

\* C37: in every state reached through the service each session belongs to
\* the sub of the refresh token minted with its jti and no two sessions share
\* a jti; a logout changes no session of a user other than the caller, and it
\* never takes its owner-mismatch branch
C37_SessionOwnerMatchesToken ==
    /\ [](/\ \A s \in sessions :
              /\ \E tok \in minted : tok.jti = s.refresh_token_jti
              /\ \A tok \in minted :
                   tok.jti = s.refresh_token_jti => tok.sub = s.user_id
              /\ \A o \in sessions :
                   o.refresh_token_jti = s.refresh_token_jti => o = s
           /\ resp.msg # "LOGOUT_JTI_USER_MISMATCH_ALERT")
    /\ [][\A current_user_id \in SubValues, tok \in PresentedTokens :
            LogoutUser(current_user_id, tok)
              => /\ {s \in sessions : s.user_id # current_user_id} \subseteq sessions'
                 /\ \A s \in sessions' : s.user_id # current_user_id => s \in sessions]_vars

\* two users are logged in, one logged out: that session is inactive and
\* the other user's session is still usable
C37_Witness ==
    /\ resp.op = "logout_user"
    /\ resp.msg = "LOGOUT_SESSION_INVALIDATED"
    /\ \E s \in get_session_by_jti(sessions, resp.subject) :
         /\ ~s.is_active
         /\ \E o \in sessions : o.user_id # s.user_id /\ Usable(o, now)

\* C38: with the clock advancing and cleanup_expired_otps run again and
\* again, every PendingOTP row is deleted in the end; a cleanup deletes every
\* row that has a terminal status or whose expires_at is before now, deletes
\* no row that is still active, and adds or changes none
C38_EveryRowEventuallyDeleted ==
    /\ [][Housekeeping
            => /\ otps' \subseteq otps
               /\ \A r \in otps :
                    /\ (r.status \in TerminalStatuses \/ r.expires_at < now)
                         => \A o \in otps' : o.id # r.id
                    /\ IsActiveOtp(r, now) => r \in otps']_vars
    /\ \A id \in 1..MaxOtpRows :
         (\E r \in otps : r.id = id) ~> (\A r \in otps : r.id # id)

\* a cleanup has deleted the first row and kept the second, which is active
C38_Witness ==
    /\ resp.op = "cleanup_expired_otps"
    /\ nextOtpId > MaxOtpRows
    /\ \A r \in otps : r.id # 1
    /\ \E r \in otps : IsActiveOtp(r, now)

====
